---------------------------- MODULE Spec2Model ----------------------------
(***************************************************************************)
(* A model of mathexp.py: the expression parser (exp_check, get_function,  *)
(* lookup_top_operator, MathExp.__init__) and the evaluator                *)
(* (MathExp.evaluate and the variable-table methods).                      *)
(*                                                                         *)
(* A Python string is a sequence of one-character strings, so "2+3" is     *)
(* <<"2", "+", "3">>.  Python indexes from 0 and TLA+ from 1: an index     *)
(* that the code returns or stores (lookup_top_operator's pos) keeps its   *)
(* Python value, and At(exp, i) reads exp[i].                              *)
(***************************************************************************)
EXTENDS Integers, Sequences, FiniteSets, TLC

(***************************************************************************)
(* Python string primitives.                                               *)
(***************************************************************************)
At(exp, i) == exp[i + 1]

\* exp[a:b] for 0 <= a and 0 <= b
Slice(exp, a, b) ==
    LET hi == IF b > Len(exp) THEN Len(exp) ELSE b
    IN  IF a >= hi THEN <<>> ELSE SubSeq(exp, a + 1, hi)

startswith(exp, prefix) ==
    /\ Len(prefix) <= Len(exp)
    /\ Slice(exp, 0, Len(prefix)) = prefix

endswith(exp, suffix) ==
    /\ Len(suffix) <= Len(exp)
    /\ Slice(exp, Len(exp) - Len(suffix), Len(exp)) = suffix

\* exp.replace(" ", "")
RECURSIVE remove_spaces(_)
remove_spaces(exp) ==
    IF exp = <<>> THEN <<>>
    ELSE IF Head(exp) = " " THEN remove_spaces(Tail(exp))
         ELSE <<Head(exp)>> \o remove_spaces(Tail(exp))

(***************************************************************************)
(* Outcomes.  A call returns a value or raises; both are records, so that  *)
(* any two outcomes can be compared.                                       *)
(***************************************************************************)
MALFORMED_EXPRESSION_ERROR == "Malformed expression"
EXPRESSION_PARSING_ERROR == "Expression parser error"
SYMBOL_NOT_FOUND_ERROR == "Symbol not found"

\* raise Exception(message), and the exceptions Python itself raises
Raise(kind) == [err |-> kind, token |-> <<>>]
RaiseSymbol(token) == [err |-> SYMBOL_NOT_FOUND_ERROR, token |-> token]
IsErr(r) == "err" \in DOMAIN r

None == [none |-> TRUE]

MATHEXP_LITERAL == 0
MATHEXP_FUNCTION == 1
MATHEXP_OPERATOR == 2

\* FUNCTION_LIST.keys(), in the dict's (insertion) order
FUNCTION_LIST ==
    << <<"s","i","n">>, <<"c","o","s">>, <<"t","a","n">>,
       <<"a","s","i","n">>, <<"a","c","o","s">>, <<"a","t","a","n">>,
       <<"l","n">>, <<"l","o","g">>, <<"a","b","s">>, <<"f","a","c","t">> >>

\* as OPERATOR_PRIORITY, with one priority for every operator
OPERATOR_PRIORITY_flat == [token \in {"^", "*", "/", "+", "-"} |-> -1]

OPERATOR_PRIORITY ==
    ("^" :> -1) @@ ("*" :> -2) @@ ("/" :> -2) @@ ("+" :> -3) @@ ("-" :> -3)

is_operator(token) == token \in {"^", "*", "/", "+", "-"}

(***************************************************************************)
(* parens_are_balanced: one scan with a depth counter i.                   *)
(***************************************************************************)
RECURSIVE balance_scan(_, _, _)
balance_scan(exp, k, i) ==
    IF k >= Len(exp) THEN i = 0
    ELSE LET char == At(exp, k)
             j == i + (IF char = "(" THEN 1 ELSE 0) - (IF char = ")" THEN 1 ELSE 0)
         IN  IF j < 0 THEN FALSE ELSE balance_scan(exp, k + 1, j)

\* as parens_are_balanced, without the test "if i < 0" inside the loop
RECURSIVE count_scan(_, _, _)
count_scan(exp, k, i) ==
    IF k >= Len(exp) THEN i = 0
    ELSE count_scan(exp, k + 1,
                    i + (IF At(exp, k) = "(" THEN 1 ELSE 0)
                      - (IF At(exp, k) = ")" THEN 1 ELSE 0))

parens_counted(exp) == count_scan(exp, 0, 0)

parens_are_balanced(exp) == balance_scan(exp, 0, 0)

(***************************************************************************)
(* get_function: the loop over FUNCTION_LIST.  The loop assigns to exp, so *)
(* a later iteration tests the stripped string, as in the code.            *)
(***************************************************************************)
NoFunction == <<>>

\* as get_function_loop, without the test of the inner string's balance
RECURSIVE get_function_unbalanced(_, _)
get_function_unbalanced(exp, k) ==
    IF k > Len(FUNCTION_LIST) THEN NoFunction
    ELSE IF startswith(exp, FUNCTION_LIST[k] \o <<"(">>) /\ endswith(exp, <<")">>)
         THEN FUNCTION_LIST[k]
         ELSE get_function_unbalanced(exp, k + 1)

RECURSIVE get_function_loop(_, _)
get_function_loop(exp, k) ==
    IF k > Len(FUNCTION_LIST) THEN NoFunction
    ELSE LET function == FUNCTION_LIST[k]
         IN  IF startswith(exp, function \o <<"(">>) /\ endswith(exp, <<")">>)
             THEN LET inner == Slice(exp, Len(function) + 1, Len(exp) - 1)
                  IN  IF parens_are_balanced(inner) THEN function
                      ELSE get_function_loop(inner, k + 1)
             ELSE get_function_loop(exp, k + 1)

get_function(exp) == get_function_loop(exp, 1)

(***************************************************************************)
(* remove_extra_parens and exp_check.                                      *)
(***************************************************************************)
RECURSIVE remove_extra_parens(_)
remove_extra_parens(exp) ==
    IF /\ startswith(exp, <<"(">>)
       /\ endswith(exp, <<")">>)
       /\ parens_are_balanced(Slice(exp, 1, Len(exp) - 1))
    THEN remove_extra_parens(Slice(exp, 1, Len(exp) - 1))
    ELSE exp

\* as exp_check_sign, with no "0" put before a leading "-"
exp_check_sign_kept(exp) == IF At(exp, 0) = "+" THEN Tail(exp) ELSE exp

\* the sign handling that ends exp_check (lines 135-138)
exp_check_sign(exp) ==
    LET signed == IF At(exp, 0) = "-" THEN <<"0">> \o exp ELSE exp
    IN  IF At(signed, 0) = "+" THEN Tail(signed) ELSE signed

\* returns [ok |-> the normalized string] or what the call raises
exp_check(exp) ==
    IF ~parens_are_balanced(exp) THEN Raise(MALFORMED_EXPRESSION_ERROR)
    ELSE LET stripped == remove_extra_parens(remove_spaces(exp))
         IN  IF stripped = <<>> THEN Raise("IndexError")   \* exp[0] of ""
             ELSE LET first == At(stripped, 0)
                      last == At(stripped, Len(stripped) - 1)
                  IN  IF is_operator(first) /\ first # "+" /\ first # "-"
                      THEN Raise(MALFORMED_EXPRESSION_ERROR)
                      ELSE IF is_operator(last)
                      THEN Raise(MALFORMED_EXPRESSION_ERROR)
                      ELSE [ok |-> exp_check_sign(stripped)]

(***************************************************************************)
(* lookup_top_operator: the scan, with its locals pos, level and i.        *)
(***************************************************************************)
\* as replaces_candidate, with "<" for "<="
replaces_candidate_strict(token, best) ==
    OPERATOR_PRIORITY[token] < OPERATOR_PRIORITY[best]

\* line 173
replaces_candidate(token, best) == OPERATOR_PRIORITY[token] <= OPERATOR_PRIORITY[best]

RECURSIVE lookup_scan(_, _, _, _)
lookup_scan(exp, i, level, pos) ==
    IF i >= Len(exp) THEN pos
    ELSE LET token == At(exp, i)
         IN  IF token = "(" THEN lookup_scan(exp, i + 1, level + 1, pos)
             ELSE IF token = ")" THEN lookup_scan(exp, i + 1, level - 1, pos)
             ELSE IF ~is_operator(token) THEN lookup_scan(exp, i + 1, level, pos)
             ELSE IF level # 0 THEN lookup_scan(exp, i + 1, level, pos)
             ELSE IF i = 0 \/ i = Len(exp) - 1 THEN lookup_scan(exp, i + 1, level, pos)
             ELSE IF (token = "+" \/ token = "-") /\ is_operator(At(exp, i - 1))
                  THEN lookup_scan(exp, i + 1, level, pos)
             ELSE IF pos = -1 THEN lookup_scan(exp, i + 1, level, i)
             ELSE IF replaces_candidate(token, At(exp, pos))
                  THEN lookup_scan(exp, i + 1, level, i)
             ELSE lookup_scan(exp, i + 1, level, pos)

lookup_top_operator(exp) == lookup_scan(exp, 0, 0, -1)

(***************************************************************************)
(* MathExp.__init__: the tree, or what the constructor raises.  Every node *)
(* is a MathExp object with a variables_table of its own, empty as built.  *)
(***************************************************************************)
EmptyTable == [key \in {} |-> None]

Node(typ, token, left, right) ==
    [typ |-> typ, token |-> token, left |-> left, right |-> right,
     variables_table |-> EmptyTable]

RECURSIVE MathExp(_)
MathExp(exp) ==
    LET checked == exp_check(exp)
    IN  IF IsErr(checked) THEN checked
        ELSE LET e == checked.ok
                 function == get_function(e)
             IN  IF function # NoFunction
                 THEN LET arg == Slice(e, Len(function) + 1, Len(e) - 1)
                          right == MathExp(arg)
                      IN  IF IsErr(right) THEN right
                          ELSE Node(MATHEXP_FUNCTION, function, None, right)
                 ELSE LET top_operator_pos == lookup_top_operator(e)
                      IN  IF top_operator_pos >= 0
                          THEN LET exp_izq == Slice(e, 0, top_operator_pos)
                                   exp_der == Slice(e, top_operator_pos + 1, Len(e))
                                   left == MathExp(exp_izq)
                               IN  IF IsErr(left) THEN left
                                   ELSE LET right == MathExp(exp_der)
                                        IN  IF IsErr(right) THEN right
                                            ELSE Node(MATHEXP_OPERATOR,
                                                      <<At(e, top_operator_pos)>>,
                                                      left, right)
                          ELSE Node(MATHEXP_LITERAL, e, None, None)

(***************************************************************************)
(* Numbers.  A float is held exactly, as a fraction n/d in lowest terms,   *)
(* while numerator and denominator stay within ExactLimit; a result past   *)
(* it, or one that is no fraction (a fractional power, a logarithm), is    *)
(* held as the term that produced it.  Two equal terms denote equal        *)
(* floats, so an equality checked on terms holds of the floats.            *)
(***************************************************************************)
ExactLimit == 10000

Abs(x) == IF x < 0 THEN -x ELSE x

RECURSIVE GCD(_, _)
GCD(a, b) == IF b = 0 THEN a ELSE GCD(b, a % b)

Rat(n, d) ==
    LET g == GCD(Abs(n), Abs(d))
        s == IF d < 0 THEN -1 ELSE 1
    IN  [n |-> (s * n) \div g, d |-> (s * d) \div g]

Whole(n) == [n |-> n, d |-> 1]
IsExact(v) == "n" \in DOMAIN v
Term(name, args) == [sym |-> name, args |-> args]

\* n/d when it fits, the term otherwise
Fit(n, d, term) ==
    LET r == Rat(n, d)
    IN  IF Abs(r.n) > ExactLimit \/ r.d > ExactLimit THEN term ELSE r

IsZero(v) == IsExact(v) /\ v.n = 0

\* base ** k for an integer k >= 0, by repeated multiplication
RECURSIVE PowNat(_, _, _, _)
PowNat(base, k, acc, term) ==
    IF k = 0 THEN acc
    ELSE LET r == Fit(acc.n * base.n, acc.d * base.d, term)
         IN  IF ~IsExact(r) THEN term
             ELSE IF r = acc THEN acc      \* base is 0 or 1: a fixed point
             ELSE PowNat(base, k - 1, r, term)

(***************************************************************************)
(* evaluate_operator.  Python raises ZeroDivisionError for a float         *)
(* division by zero and for zero to a negative power.                      *)
(***************************************************************************)
evaluate_operator(token, arg1, arg2) ==
    LET term == Term(token, <<arg1, arg2>>)
        exact == IsExact(arg1) /\ IsExact(arg2)
    IN  IF token = <<"^">>
        THEN IF IsZero(arg1) /\ IsExact(arg2) /\ arg2.n < 0
             THEN Raise("ZeroDivisionError")
             ELSE IF ~exact \/ arg2.d # 1 THEN term
             ELSE IF arg2.n >= 0 THEN PowNat(arg1, arg2.n, Whole(1), term)
             ELSE PowNat(Rat(arg1.d, arg1.n), -arg2.n, Whole(1), term)
        ELSE IF token = <<"*">>
        THEN IF exact THEN Fit(arg1.n * arg2.n, arg1.d * arg2.d, term) ELSE term
        ELSE IF token = <<"/">>
        THEN IF IsZero(arg2) THEN Raise("ZeroDivisionError")
             ELSE IF exact THEN Fit(arg1.n * arg2.d, arg1.d * arg2.n, term) ELSE term
        ELSE IF token = <<"+">>
        THEN IF exact THEN Fit(arg1.n * arg2.d + arg2.n * arg1.d, arg1.d * arg2.d, term)
             ELSE term
        ELSE IF token = <<"-">>
        THEN IF exact THEN Fit(arg1.n * arg2.d - arg2.n * arg1.d, arg1.d * arg2.d, term)
             ELSE term
        ELSE Raise(EXPRESSION_PARSING_ERROR)

(***************************************************************************)
(* fact, and FUNCTION_LIST[token](arg).  abs and fact are exact; the math  *)
(* functions raise ValueError outside their domain and otherwise give a    *)
(* term, except at the arguments where their float value is 0 or 1.  The   *)
(* domain of a term argument is not decided: the result is a term.         *)
(***************************************************************************)
RECURSIVE fact_loop(_, _, _, _)
fact_loop(i, num, res, term) ==
    IF i > num THEN res
    ELSE LET r == Fit(res.n * i, 1, term)
         IN  IF ~IsExact(r) THEN term ELSE fact_loop(i + 1, num, r, term)

fact(num) ==
    IF ~IsExact(num) THEN Term(<<"f","a","c","t">>, <<num>>)
    ELSE IF num.d # 1 \/ num.n < 0
    THEN Raise("Factorial: Number must be a positive integer")
    ELSE fact_loop(1, num.n, Whole(1), Term(<<"f","a","c","t">>, <<num>>))

apply_function(token, arg) ==
    LET term == Term(token, <<arg>>)
    IN  IF token = <<"f","a","c","t">> THEN fact(arg)
        ELSE IF ~IsExact(arg) THEN term
        ELSE IF token = <<"a","b","s">> THEN [n |-> Abs(arg.n), d |-> arg.d]
        ELSE IF token \in {<<"l","n">>, <<"l","o","g">>}
        THEN IF arg.n <= 0 THEN Raise("ValueError")
             ELSE IF arg = Whole(1) THEN Whole(0) ELSE term
        ELSE IF token \in {<<"a","s","i","n">>, <<"a","c","o","s">>}
        THEN IF Abs(arg.n) > arg.d THEN Raise("ValueError")
             ELSE IF token = <<"a","s","i","n">> /\ IsZero(arg) THEN Whole(0)
             ELSE IF token = <<"a","c","o","s">> /\ arg = Whole(1) THEN Whole(0)
             ELSE term
        ELSE IF token = <<"c","o","s">>
        THEN IF IsZero(arg) THEN Whole(1) ELSE term
        ELSE IF IsZero(arg) THEN Whole(0) ELSE term   \* sin, tan, atan

(***************************************************************************)
(* is_number and float(token).  A token is made of the characters of the   *)
(* input, none of which is a point, an exponent letter or an underscore:   *)
(* of such a token float() accepts an optional sign followed by digits.    *)
(***************************************************************************)
DigitValue ==
    ("0" :> 0) @@ ("1" :> 1) @@ ("2" :> 2) @@ ("3" :> 3) @@ ("4" :> 4) @@
    ("5" :> 5) @@ ("6" :> 6) @@ ("7" :> 7) @@ ("8" :> 8) @@ ("9" :> 9)

Unsigned(num) ==
    IF num # <<>> /\ Head(num) \in {"+", "-"} THEN Tail(num) ELSE num

is_number(num) ==
    /\ Unsigned(num) # <<>>
    /\ \A k \in 1..Len(Unsigned(num)) : Unsigned(num)[k] \in DOMAIN DigitValue

RECURSIVE digits_value(_, _)
digits_value(digits, acc) ==
    IF digits = <<>> THEN acc
    ELSE digits_value(Tail(digits), 10 * acc + DigitValue[Head(digits)])

float(num) ==
    LET magnitude == digits_value(Unsigned(num), 0)
    IN  Whole(IF Head(num) = "-" THEN -magnitude ELSE magnitude)

(***************************************************************************)
(* MathExp.evaluate.  The argument is None or a table; a node called with  *)
(* None uses its own variables_table, and hands the table it uses to its   *)
(* children.                                                               *)
(***************************************************************************)
NoTable == [none |-> TRUE, table |-> EmptyTable]
Table(t) == [none |-> FALSE, table |-> t]

\* as lookup_variable, raising the message without the token
lookup_unnamed(token, tmp_variables_table) ==
    IF token \notin DOMAIN tmp_variables_table
    THEN Raise(SYMBOL_NOT_FOUND_ERROR)
    ELSE tmp_variables_table[token]

\* lines 216-219: the lookup of a token that is not a number
lookup_variable(token, tmp_variables_table) ==
    IF token \notin DOMAIN tmp_variables_table
    THEN RaiseSymbol(token)
    ELSE tmp_variables_table[token]

\* as child_argument, passing nothing on: the child uses its own table
child_argument_none(tmp_variables_table) == NoTable

\* the argument a node passes to a child's evaluate (lines 221, 225, 226)
child_argument(tmp_variables_table) == Table(tmp_variables_table)

RECURSIVE evaluate(_, _)
evaluate(self, argument) ==
    LET tmp_variables_table ==
            IF argument.none THEN self.variables_table ELSE argument.table
    IN  IF self.typ = MATHEXP_LITERAL
        THEN IF is_number(self.token) THEN float(self.token)
             ELSE lookup_variable(self.token, tmp_variables_table)
        ELSE IF self.typ = MATHEXP_FUNCTION
        THEN LET arg == evaluate(self.right, child_argument(tmp_variables_table))
             IN  IF IsErr(arg) THEN arg ELSE apply_function(self.token, arg)
        ELSE IF self.typ = MATHEXP_OPERATOR
        THEN LET left_value == evaluate(self.left, child_argument(tmp_variables_table))
             IN  IF IsErr(left_value) THEN left_value
                 ELSE LET right_value ==
                              evaluate(self.right, child_argument(tmp_variables_table))
                      IN  IF IsErr(right_value) THEN right_value
                          ELSE evaluate_operator(self.token, left_value, right_value)
        ELSE Raise(EXPRESSION_PARSING_ERROR)

(***************************************************************************)
(* The variable-table methods: the tables they leave, and what             *)
(* remove_variable raises for a key that is not there (dict.pop).          *)
(***************************************************************************)
add_variable(table, key, value) ==
    [k \in (DOMAIN table) \cup {key} |-> IF k = key THEN value ELSE table[k]]

remove_variable(table, key) == [k \in (DOMAIN table) \ {key} |-> table[k]]

(***************************************************************************)
(* Inputs.  A string is put together from pieces: single characters and    *)
(* the opening of a function call.                                         *)
(***************************************************************************)
MaxPieces == 4
MaxNesting == 5
MaxOps == 2
MaxVarPieces == 4

RECURSIVE StringsOf(_, _)
StringsOf(pieces, max) ==
    IF max = 0 THEN { <<>> }
    ELSE LET shorter == StringsOf(pieces, max - 1)
         IN  shorter \cup { s \o p : s \in shorter, p \in pieces }

\* any text: operands, signs, operators, parentheses, blanks, a function
TextPieces ==
    { <<"2">>, <<"x">>, <<"+">>, <<"-">>, <<"^">>, <<"(">>, <<")">>, <<" ">>,
      <<"l","n","(">> }

\* nested and adjacent parentheses and function calls
NestingPieces == { <<"(">>, <<")">>, <<"2">>, <<"l","n","(">>, <<"l","o","g","(">> }

\* arithmetic: numbers, the five operators, parentheses around a compound
Digits == { <<"2">>, <<"3">> }
Operators == {"^", "*", "/", "+", "-"}

\* Arithmetic(n)[k + 1]: the expressions of k operators, k in 0..n
RECURSIVE Arithmetic(_)
Arithmetic(n) ==
    IF n = 0 THEN << Digits >>
    ELSE LET fewer == Arithmetic(n - 1)
             bare == UNION { { a \o <<op>> \o b :
                                 a \in fewer[i + 1], b \in fewer[n - i],
                                 op \in Operators } : i \in 0..(n - 1) }
         IN  Append(fewer, bare \cup { <<"(">> \o e \o <<")">> : e \in bare })

ParseInputs ==
    << StringsOf(TextPieces, MaxPieces), StringsOf(NestingPieces, MaxNesting) >>
        \o Arithmetic(MaxOps)

\* expressions over the variables x and y: any text, and operator chains
VariablePieces ==
    { <<"x">>, <<"y">>, <<"2">>, <<"-">>, <<"/">>, <<")">>, <<"a","b","s","(">> }

Variables == { <<"x">>, <<"y">> }

RECURSIVE Chains(_)
Chains(n) ==
    IF n = 0 THEN Variables
    ELSE { a \o <<op>> \o b : a \in Chains(n - 1), op \in {"-", "/"}, b \in Variables }

Expressions ==
    << StringsOf(VariablePieces, MaxVarPieces), UNION { Chains(n) : n \in 0..MaxOps } >>

Keys == { <<"x">>, <<"y">> }
Values == { Whole(0), Whole(2) }
Tables == UNION { [keys -> Values] : keys \in SUBSET Keys }
Arguments == {NoTable} \cup { Table(t) : t \in Tables }

(***************************************************************************)
(* The state: the string given to the constructor, the object it built     *)
(* (None until it has), the last call made and what it returned or raised. *)
(***************************************************************************)
VARIABLES exp, self, call, ret

vars == <<exp, self, call, ret>>

Call(op, argument) == [op |-> op, argument |-> argument]

\* inputs: the families of strings the constructor may be given
StartsWith(inputs) ==
    /\ \E family \in DOMAIN inputs : exp \in inputs[family]
    /\ self = None
    /\ call = Call("none", NoTable)
    /\ ret = None

\* self = MathExp(exp)
Construct ==
    /\ self = None
    /\ LET built == MathExp(exp)
       IN  /\ self' = IF IsErr(built) THEN None ELSE built
           /\ ret' = IF IsErr(built) THEN built ELSE None
    /\ call' = Call("__init__", NoTable)
    /\ UNCHANGED exp

\* self.evaluate(), self.evaluate(table)
Evaluate(argument) ==
    /\ self # None
    /\ ret' = evaluate(self, argument)
    /\ call' = Call("evaluate", argument)
    /\ UNCHANGED <<exp, self>>

AddVariable(key, value) ==
    /\ self # None
    /\ self' = [self EXCEPT !.variables_table = add_variable(@, key, value)]
    /\ ret' = None
    /\ call' = Call("add_variable", NoTable)
    /\ UNCHANGED exp

RemoveVariable(key) ==
    /\ self # None
    /\ IF key \in DOMAIN self.variables_table
       THEN /\ self' = [self EXCEPT !.variables_table = remove_variable(@, key)]
            /\ ret' = None
       ELSE /\ self' = self
            /\ ret' = Raise("KeyError")
    /\ call' = Call("remove_variable", NoTable)
    /\ UNCHANGED exp

SetVariablesTable(table) ==
    /\ self # None
    /\ self' = [self EXCEPT !.variables_table = table]
    /\ ret' = None
    /\ call' = Call("set_variables_table", NoTable)
    /\ UNCHANGED exp

\* the module's functions, called on the string itself
GetFunction ==
    /\ ret' = [function |-> get_function(exp)]
    /\ call' = Call("get_function", NoTable)
    /\ UNCHANGED <<exp, self>>

LookupTopOperator ==
    /\ ret' = [pos |-> lookup_top_operator(exp)]
    /\ call' = Call("lookup_top_operator", NoTable)
    /\ UNCHANGED <<exp, self>>

\* An object and its variable table, through any sequence of calls.
Init == StartsWith(Expressions)

Next ==
    \/ Construct
    \/ \E argument \in Arguments : Evaluate(argument)
    \/ \E key \in Keys, value \in Values : AddVariable(key, value)
    \/ \E key \in Keys : RemoveVariable(key)
    \/ \E table \in Tables : SetVariablesTable(table)

Spec == Init /\ [][Next]_vars

\* Parsing: any text, constructed and evaluated as built.
InitParse == StartsWith(ParseInputs)

NextParse ==
    \/ Construct
    \/ Evaluate(NoTable)
    \/ GetFunction
    \/ LookupTopOperator

SpecParse == InitParse /\ [][NextParse]_vars

(***************************************************************************)
(* What the claims speak of, stated without the code's own scans.          *)
(***************************************************************************)
\* the count of "(" minus the count of ")" in the first k characters
Depth(s, k) ==
    Cardinality({j \in 1..k : s[j] = "("}) - Cardinality({j \in 1..k : s[j] = ")"})

Unbalanced(s) ==
    \/ \E k \in 1..Len(s) : Depth(s, k) < 0
    \/ Depth(s, Len(s)) # 0

\* what the constructor gave: the tree, or what it raised
Constructed == IF self = None THEN ret ELSE self

\* C2: constructing from a string whose parentheses are unbalanced (the
\* running count goes negative somewhere, or is not zero at the end) raises
\* "Malformed expression" and leaves no tree, whatever else the string holds.
C2_UnbalancedIsMalformed ==
    Unbalanced(exp) =>
        /\ self = None
        /\ call.op = "__init__" => ret = Raise(MALFORMED_EXPRESSION_ERROR)

\* a string that closes a parenthesis before opening one, with as many of
\* each, has been refused
C2_Witness ==
    /\ call.op = "__init__"
    /\ Len(exp) >= 3
    /\ Depth(exp, Len(exp)) = 0
    /\ \E k \in 1..Len(exp) : Depth(exp, k) < 0
    /\ ret = Raise(MALFORMED_EXPRESSION_ERROR)

\* C3: construction returns a tree or raises "Malformed expression" or
\* "Expression parser error"; nothing else escapes it.
C3_OnlyTypedErrors ==
    call.op = "__init__" =>
        \/ self # None
        \/ ret.err \in {MALFORMED_EXPRESSION_ERROR, EXPRESSION_PARSING_ERROR}

\* C4: get_function(exp) is the registered name F for which exp is F, "(",
\* a balanced string, ")"; it is none when there is no such F.
Matching(s) ==
    { FUNCTION_LIST[k] : k \in
        { k \in 1..Len(FUNCTION_LIST) :
            LET name == FUNCTION_LIST[k]
            IN  /\ Len(s) >= Len(name) + 2
                /\ SubSeq(s, 1, Len(name)) = name
                /\ s[Len(name) + 1] = "("
                /\ s[Len(s)] = ")"
                /\ ~Unbalanced(SubSeq(s, Len(name) + 2, Len(s) - 1)) } }

C4_GetFunctionExact ==
    call.op = "get_function" =>
        IF Matching(exp) = {} THEN ret.function = NoFunction
        ELSE Matching(exp) = {ret.function}

\* a balanced string that opens with a function call and goes on after it,
\* ending in ")", was not taken for a function call
C4_Witness ==
    /\ call.op = "get_function"
    /\ ~Unbalanced(exp)
    /\ startswith(exp, <<"l","n","(">>)
    /\ exp[Len(exp)] = ")"
    /\ ret.function = NoFunction

\* C8: constructing "-" followed by E gives what constructing "0-" followed
\* by E gives: the same tree or the same failure.
C8_LeadingMinusIsZeroMinus ==
    (call.op = "__init__" /\ exp # <<>> /\ Head(exp) = "-") =>
        Constructed = MathExp(<<"0">> \o exp)

\* "-a+b" was built as the sum of "0-a" and "b"
C8_Witness ==
    /\ call.op = "__init__"
    /\ Len(exp) >= 4
    /\ Head(exp) = "-"
    /\ self # None
    /\ self.typ = MATHEXP_OPERATOR
    /\ self.token = <<"+">>
    /\ self.left.typ = MATHEXP_OPERATOR
    /\ self.left.token = <<"-">>
    /\ self.left.left.token = <<"0">>

\* C9: on a balanced string lookup_top_operator returns the rightmost of the
\* candidates of lowest priority, and -1 when there is no candidate.  The
\* candidates are the operator characters at depth 0 that are not first, not
\* last, and not a "+" or "-" that follows an operator character.
ClaimedPriority ==
    ("^" :> -1) @@ ("*" :> -2) @@ ("/" :> -2) @@ ("+" :> -3) @@ ("-" :> -3)

\* Python indices
Candidates(s) ==
    { i \in 1..(Len(s) - 2) :
        /\ s[i + 1] \in DOMAIN ClaimedPriority
        /\ Depth(s, i) = 0
        /\ ~(s[i + 1] \in {"+", "-"} /\ s[i] \in DOMAIN ClaimedPriority) }

Weakest(s) ==
    { i \in Candidates(s) :
        \A j \in Candidates(s) : ClaimedPriority[s[i + 1]] <= ClaimedPriority[s[j + 1]] }

C9_TopOperator ==
    (call.op = "lookup_top_operator" /\ ~Unbalanced(exp)) =>
        IF Candidates(exp) = {} THEN ret.pos = -1
        ELSE /\ ret.pos \in Weakest(exp)
             /\ \A i \in Weakest(exp) : i <= ret.pos

\* a chain of two "^" was split at the second
C9_Witness ==
    /\ call.op = "lookup_top_operator"
    /\ ~Unbalanced(exp)
    /\ Cardinality(Candidates(exp)) = 2
    /\ \A i \in Candidates(exp) : exp[i + 1] = "^"
    /\ \E i \in Candidates(exp) : i < ret.pos

\* C10: in a constructed tree every node has the children of its type, and
\* a Literal's token is not empty, holds no parenthesis and, unless it is a
\* number, no operator character.
IsName(token) ==
    /\ token # <<>>
    /\ \A k \in 1..Len(token) : token[k] \notin {"(", ")"}
    /\ is_number(token) \/ \A k \in 1..Len(token) : ~is_operator(token[k])

RECURSIVE WellShaped(_)
WellShaped(node) ==
    IF node.typ = MATHEXP_LITERAL
    THEN node.left = None /\ node.right = None /\ IsName(node.token)
    ELSE IF node.typ = MATHEXP_FUNCTION
    THEN node.left = None /\ node.right # None /\ WellShaped(node.right)
    ELSE /\ node.typ = MATHEXP_OPERATOR
         /\ node.left # None /\ node.right # None
         /\ WellShaped(node.left) /\ WellShaped(node.right)

C10_TreeShapeAndTokens == self # None => WellShaped(self)

(***************************************************************************)
(* C1: the reference evaluator.  An expression is terms joined by "+" and  *)
(* "-"; a term is powers joined by "*" and "/"; a power is atoms joined by *)
(* "^"; an atom is a number (a run of digits) or an expression in          *)
(* parentheses.  Each level is read and combined from left to right.  A    *)
(* parse gives [ok, value, next]: whether it succeeded, the value (or the  *)
(* arithmetic error), and the index after what it read.                    *)
(***************************************************************************)
Parsed(value, next) == [ok |-> TRUE, value |-> value, next |-> next]
NoParse == [ok |-> FALSE, value |-> None, next |-> 0]

Combine(op, a, b) ==
    IF IsErr(a) THEN a ELSE IF IsErr(b) THEN b ELSE evaluate_operator(<<op>>, a, b)

RECURSIVE DigitsEnd(_, _)
DigitsEnd(s, i) ==
    IF i <= Len(s) /\ s[i] \in DOMAIN DigitValue THEN DigitsEnd(s, i + 1) ELSE i

RECURSIVE RefExpression(_, _), RefLevel(_, _, _), RefRest(_, _, _)

\* level 3 is "+ -", level 2 is "* /", level 1 is "^", level 0 is an atom
LevelOperators(level) ==
    IF level = 3 THEN {"+", "-"} ELSE IF level = 2 THEN {"*", "/"} ELSE {"^"}

RefLevel(s, i, level) ==
    IF level = 0
    THEN IF i > Len(s) THEN NoParse
         ELSE IF s[i] = "("
         THEN LET inner == RefExpression(s, i + 1)
              IN  IF inner.ok /\ inner.next <= Len(s) /\ s[inner.next] = ")"
                  THEN Parsed(inner.value, inner.next + 1)
                  ELSE NoParse
         ELSE LET j == DigitsEnd(s, i)
              IN  IF j = i THEN NoParse
                  ELSE Parsed(Whole(digits_value(SubSeq(s, i, j - 1), 0)), j)
    ELSE LET first == RefLevel(s, i, level - 1)
         IN  IF first.ok THEN RefRest(s, first, level) ELSE NoParse

\* the operands that follow at this level, each combined with what is to
\* its left
RefRest(s, left, level) ==
    IF left.next <= Len(s) /\ s[left.next] \in LevelOperators(level)
    THEN LET right == RefLevel(s, left.next + 1, level - 1)
         IN  IF right.ok
             THEN RefRest(s, Parsed(Combine(s[left.next], left.value, right.value),
                                    right.next), level)
             ELSE NoParse
    ELSE left

RefExpression(s, i) == RefLevel(s, i, 3)

WellFormed(s) == RefExpression(s, 1).ok /\ RefExpression(s, 1).next = Len(s) + 1
RefValue(s) == RefExpression(s, 1).value

RECURSIVE Wrapped(_), Inside(_)

Wrapped(s) == { <<"(">> \o s \o <<")">> } \cup Inside(s)

\* s is left op right, op at Python index p
SplitAt(s, p) ==
    LET left == Slice(s, 0, p)
        right == Slice(s, p + 1, Len(s))
    IN  { w \o <<At(s, p)>> \o right : w \in Wrapped(left) }
            \cup { left \o <<At(s, p)>> \o w : w \in Wrapped(right) }

Inside(s) ==
    IF remove_extra_parens(s) # s
    THEN { <<"(">> \o w \o <<")">> : w \in Inside(Slice(s, 1, Len(s) - 1)) }
    ELSE IF Head(s) = "-"
    THEN \* the constructor reads 0-s: its top operator is this sign, or a
         \* binary operator further right
         LET p == lookup_top_operator(<<"0">> \o s) - 1
         IN  IF p = 0 THEN { <<"-">> \o w : w \in Wrapped(Tail(s)) }
             ELSE SplitAt(s, p)
    ELSE IF Head(s) = "+"
    THEN LET p == IF get_function(Tail(s)) # NoFunction THEN -1
                  ELSE lookup_top_operator(Tail(s))
         IN  IF p = -1 THEN { <<"+">> \o w : w \in Wrapped(Tail(s)) }
             ELSE SplitAt(s, p + 1)
    ELSE IF get_function(s) # NoFunction
    THEN LET name == get_function(s)
         IN  { name \o <<"(">> \o w \o <<")">> :
                 w \in Wrapped(Slice(s, Len(name) + 1, Len(s) - 1)) }
    ELSE IF lookup_top_operator(s) >= 0 THEN SplitAt(s, lookup_top_operator(s))
    ELSE {}

\* construct, then evaluate with the table as built
ValueOf(s) ==
    LET built == MathExp(s)
    IN  IF IsErr(built) THEN built ELSE evaluate(built, NoTable)

\* C7: when an expression constructs and evaluates to a value, so does the
\* expression with one of its complete sub-expressions in parentheses, and
\* to the same value.
C7_ParenthesesTransparent ==
    (call.op = "evaluate" /\ ~IsErr(ret) /\ " " \notin {exp[k] : k \in 1..Len(exp)}) =>
        \A w \in Wrapped(exp) : ValueOf(w) = ret

(***************************************************************************)
(* C5 and C6: evaluation against one table.                                *)
(***************************************************************************)
\* the table a call of evaluate is to use
Effective(argument, object) ==
    IF argument.none THEN object.variables_table ELSE argument.table

\* the tokens of the Literals that are neither numbers nor keys, from left
\* to right
RECURSIVE Unbound(_, _)
Unbound(node, table) ==
    IF node.typ = MATHEXP_LITERAL
    THEN IF is_number(node.token) \/ node.token \in DOMAIN table THEN <<>>
         ELSE <<node.token>>
    ELSE IF node.typ = MATHEXP_FUNCTION THEN Unbound(node.right, table)
    ELSE Unbound(node.left, table) \o Unbound(node.right, table)

\* the value of a node with every variable read from the one table
RECURSIVE ValueUnder(_, _)
ValueUnder(node, table) ==
    IF node.typ = MATHEXP_LITERAL
    THEN IF is_number(node.token) THEN float(node.token)
         ELSE IF node.token \in DOMAIN table THEN table[node.token]
         ELSE RaiseSymbol(node.token)
    ELSE IF node.typ = MATHEXP_FUNCTION
    THEN LET arg == ValueUnder(node.right, table)
         IN  IF IsErr(arg) THEN arg ELSE apply_function(node.token, arg)
    ELSE LET a == ValueUnder(node.left, table)
             b == ValueUnder(node.right, table)
         IN  Combine(Head(node.token), a, b)

\* a sub-expression whose variables are all bound fails, for a reason of
\* its own, before the first unbound token is reached
RECURSIVE FailsEarlier(_, _)
FailsEarlier(node, table) ==
    IF node.typ = MATHEXP_LITERAL THEN FALSE
    ELSE IF Unbound(node, table) = <<>> THEN IsErr(ValueUnder(node, table))
    ELSE IF node.typ = MATHEXP_FUNCTION THEN FailsEarlier(node.right, table)
    ELSE \/ FailsEarlier(node.left, table)
         \/ Unbound(node.left, table) = <<>> /\ FailsEarlier(node.right, table)

\* C5: with every variable of the tree bound, evaluate does not raise
\* "Symbol not found"; with some variable unbound and no earlier failure of
\* another kind, it raises "Symbol not found" with the first unbound token.
C5_SymbolNotFound ==
    call.op = "evaluate" =>
        LET table == Effective(call.argument, self)
            unbound == Unbound(self, table)
        IN  /\ unbound = <<>> => ~(IsErr(ret) /\ ret.err = SYMBOL_NOT_FOUND_ERROR)
            /\ (unbound # <<>> /\ ~FailsEarlier(self, table)) =>
                   ret = RaiseSymbol(Head(unbound))

\* two variables unbound, below an operator whose left operand is itself an
\* operation: the first from the left was reported
C5_Witness ==
    /\ call.op = "evaluate"
    /\ self.typ = MATHEXP_OPERATOR
    /\ self.left.typ = MATHEXP_OPERATOR
    /\ Len(Unbound(self, Effective(call.argument, self))) >= 2
    /\ Unbound(self, Effective(call.argument, self))[1]
           # Unbound(self, Effective(call.argument, self))[2]
    /\ ret = RaiseSymbol(Unbound(self, Effective(call.argument, self))[1])

\* C6: a call of evaluate leaves the object as it was, and returns the
\* value of the tree with every variable of every node read from the table
\* given, or from the root's stored table when none is given.
C6_EvaluateUsesOneTable ==
    [][call'.op = "evaluate" =>
          /\ self' = self
          /\ ret' = ValueUnder(self, Effective(call'.argument, self))]_vars

\* after the stored table was changed, an evaluation with an empty table
\* given found no variable, though the stored table binds them
C6_Witness ==
    /\ call.op = "evaluate"
    /\ ~call.argument.none
    /\ call.argument.table = EmptyTable
    /\ self.typ = MATHEXP_OPERATOR
    /\ Unbound(self, self.variables_table) = <<>>
    /\ Unbound(self, EmptyTable) # <<>>
    /\ IsErr(ret) /\ ret.err = SYMBOL_NOT_FOUND_ERROR
=============================================================================
